---- MODULE Spec2Model ----
(***************************************************************************)
(* A model of dtsgenerator's core (src/src/core/dtsGenerator.ts, which     *)
(* also carries the text of schema.ts from line 425 on).                   *)
(*                                                                         *)
(* A schema id (SchemaId) is the sequence of its path segments: the id     *)
(* built by baseId.concat('/', name) is Append(baseId, name).  A schema    *)
(* content is a record of the keywords the generator reads; a keyword      *)
(* that is absent has its "absent" value (see EmptyContent).               *)
(***************************************************************************)
EXTENDS Integers, Sequences, FiniteSets, TLC

VARIABLES
    call,         \* the arguments of the operation that is applied
    ret,          \* what that operation returned
    pc,           \* position of the running operation
    registry,     \* resolver: registered id -> Schema
    regOrder,     \* resolver: the registered ids in registration order
    referenced,   \* resolver: the ids recorded as referenced
    injected,     \* resolver: the schemas handed over by addSchema
    loadable,     \* the external documents a fetch would load: id -> Schema
    resolving,    \* a resolve() is in progress
    resolveCalls, \* resolve() invocations so far
    resolveDone,  \* resolve() invocations that completed
    step,         \* generate(): index of the statement that runs next
    schemas,      \* generate(): the list the synthesis pass returned
    map,          \* generate(): the namespace tree
    marked,       \* the tree nodes that still carry their leaf marker
    stack,        \* walk(): the frames of the recursion
    out,          \* writer: the calls made on it, in order
    result        \* what generate() returned

genVars == <<registry, regOrder, referenced, injected, loadable, resolving,
             resolveCalls, resolveDone, step, schemas, map, marked, stack,
             out, result>>

vars == <<call, ret, pc, genVars>>

----------------------------------------------------------------------------
(* Schema contents                                                         *)

NoId == <<>>

\* minItems === undefined
Undefined == -1

EmptyContent ==
    [ bool      |-> "none",   \* "true" / "false": the content is that boolean
      type      |-> "",       \* "" is an absent type
      ref       |-> NoId,     \* $ref
      hasNot    |-> FALSE,    \* not: {}
      hasAllOf  |-> FALSE,
      allOf     |-> <<>>,
      hasProps  |-> FALSE,
      props     |-> <<>>,     \* properties, in key order: <<[name, schema]>>
      required  |-> <<>>,
      itemsKind |-> "none",   \* "none", "single" or "list"
      items     |-> <<>>,
      minItems  |-> Undefined,
      hasEnum   |-> FALSE,
      enum      |-> <<>>,     \* the members, each the text '' + value gives
      hasConst  |-> FALSE,
      const     |-> "",       \* the text '' + value gives
      ownId     |-> NoId ]    \* the content's own id / $id

RefContent(id) == [EmptyContent EXCEPT !.ref = id]

TypeContent(t) == [EmptyContent EXCEPT !.type = t]

ObjectContent(props, required) ==
    [EmptyContent EXCEPT !.type = "object", !.hasProps = TRUE,
                         !.props = props, !.required = required]

\* obj[name] = schema on a JavaScript object: an existing key keeps its place
SetProp(props, name, schema) ==
    IF \E i \in 1..Len(props) : props[i].name = name
    THEN [i \in 1..Len(props) |->
             IF props[i].name = name THEN [name |-> name, schema |-> schema]
             ELSE props[i]]
    ELSE Append(props, [name |-> name, schema |-> schema])

PropNames(props) == {props[i].name : i \in 1..Len(props)}

PropSchema(props, name) ==
    props[CHOOSE i \in 1..Len(props) : props[i].name = name].schema

Range(s) == {s[i] : i \in 1..Len(s)}

----------------------------------------------------------------------------
(* The resolver's registry: a function from registered id to Schema        *)

NoRegistry == <<>>

IsRegistered(reg, id) == id \in DOMAIN reg

NoMap == [leaves |-> <<>>, order |-> <<>>]

\* no generate() is running
NoGeneration ==
    /\ registry = NoRegistry /\ regOrder = <<>> /\ referenced = {}
    /\ injected = <<>> /\ loadable = NoRegistry /\ resolving = FALSE
    /\ resolveCalls = 0 /\ resolveDone = 0 /\ step = 0 /\ schemas = <<>>
    /\ map = NoMap /\ marked = {} /\ stack = <<>> /\ out = <<>>
    /\ result = "none"

\* an OpenAPI v3 operation object; parameters and request body are inline
NoOperation ==
    [ hasParameters |-> FALSE, parameters |-> <<>>,
      hasBody |-> FALSE, media |-> <<>> ]

\* a registered Schema: a JSON schema content, or (isOp) an operation object
JsonSchema(id, content) ==
    [id |-> id, content |-> content, isOp |-> FALSE, op |-> NoOperation]

OperationSchema(id, op) ==
    [id |-> id, content |-> EmptyContent, isOp |-> TRUE, op |-> op]

checkOpenAPIV3SchemaContentObject(schema) == schema.isOp

----------------------------------------------------------------------------
(* OpenAPI v3 operation synthesis: resolveOpenAPIV3SchemaContentObject     *)

Locations == <<"path", "query", "header", "cookie">>

mediaTypeToTypeNamePrefix(mediaType) ==
    CASE mediaType = "application/json" -> "json"
      [] mediaType = "application/xml" -> "xml"
      [] mediaType = "application/x-www-form-urlencoded" -> "form"
      [] mediaType = "text/plain" -> "text"
      [] OTHER -> mediaType

\* resolveOpenAPIV3Object on a schema: [thrown, content]
resolveOpenAPIV3Object(reg, s) ==
    IF s.ref # NoId
    THEN IF IsRegistered(reg, s.ref)
         THEN [thrown |-> FALSE, content |-> reg[s.ref].content]
         ELSE [thrown |-> TRUE, content |-> EmptyContent]
    ELSE [thrown |-> FALSE, content |-> s]

\* the type a parameter schema is given: object and array become string
CoercedType(t) == IF t # "object" /\ t # "array" THEN t ELSE "string"

\* normalizeSchema(target.schema): [thrown, content]
normalizeSchema(reg, target) ==
    LET s0 == IF target.hasSchema THEN target.schema ELSE EmptyContent
        s1 == resolveOpenAPIV3Object(reg, s0)
        s2 == IF s1.content.bool # "none" THEN EmptyContent ELSE s1.content
    IN  [thrown |-> s1.thrown,
         content |-> [s2 EXCEPT !.type = CoercedType(s2.type)]]

\* the parameters the group schema of one location is built from
GroupedParameters(params, filterdParams) == params

\* one pass of the reduce callback: the parameter schema s of the parameter
\* target is added to prev
ReduceStep(prev, target, s) ==
    [thrown |-> prev.thrown \/ s.thrown,
     content |->
         [prev.content EXCEPT
             !.props = SetProp(@, target.name, s.content),
             !.required = IF target.required
                          THEN Append(@, target.name) ELSE @]]

\* params.reduce(...): [thrown, content]
RECURSIVE ReduceParameters(_, _, _, _)
ReduceParameters(reg, params, i, prev) ==
    IF i > Len(params) THEN prev
    ELSE ReduceParameters(reg, params, i + 1,
             ReduceStep(prev, params[i], normalizeSchema(reg, params[i])))

(* The synthesis state: the content object of requestSchema (shared by     *)
(* every copy Object.assign makes of requestSchema), the results so far    *)
(* (an entry with shared = TRUE holds that content object), and the calls  *)
(* made on the resolver.                                                   *)
InitialSynthesis ==
    [ thrown  |-> FALSE,
      request |-> ObjectContent(<<>>, <<>>),
      results |-> <<>>,
      added   |-> <<>>,     \* resolver.addSchema
      refs    |-> <<>> ]    \* resolver.addReference

\* the group schema parameterSchema is registered, returned and referenced
\* by the property propertyName of the request wrapper
AddParameterSchema(st, propertyName, parameterSchema) ==
    [st EXCEPT
        !.request =
            [@ EXCEPT
                !.props = SetProp(@, propertyName,
                                  RefContent(parameterSchema.id)),
                !.required =
                    IF Len(parameterSchema.content.required) > 0
                    THEN Append(@, propertyName) ELSE @],
        !.added = Append(@, parameterSchema),
        !.refs = Append(@, parameterSchema.id),
        !.results = Append(@, parameterSchema)]

\* the part of normalizeParameter after the reduce
AddParameterObject(st, baseId, paramName, parameterObject) ==
    IF parameterObject.thrown THEN [st EXCEPT !.thrown = TRUE]
    ELSE AddParameterSchema(st, paramName \o "Param",
             [id |-> Append(baseId, paramName \o "Parameter"),
              content |-> parameterObject.content, shared |-> FALSE])

normalizeParameter(st, reg, baseId, params, paramName) ==
    IF st.thrown THEN st
    ELSE IF Len(SelectSeq(params, LAMBDA p : p.in = paramName)) = 0 THEN st
    ELSE AddParameterObject(st, baseId, paramName,
             ReduceParameters(reg,
                 GroupedParameters(params,
                     SelectSeq(params, LAMBDA p : p.in = paramName)),
                 1, [thrown |-> FALSE, content |-> ObjectContent(<<>>, <<>>)]))

RECURSIVE NormalizeParameters(_, _, _, _, _)
NormalizeParameters(st, reg, baseId, params, k) ==
    IF k > Len(Locations) THEN st
    ELSE NormalizeParameters(
             normalizeParameter(st, reg, baseId, params, Locations[k]),
             reg, baseId, params, k + 1)

\* the id of the body schema of a media type
BodySchemaId(baseId, mediaType, singleMedia) ==
    Append(baseId,
           (IF singleMedia THEN "" ELSE mediaTypeToTypeNamePrefix(mediaType))
               \o "RequestBody")

\* the id of the request wrapper variant of a media type
RequestVariantId(baseId, mediaType, singleMedia) ==
    Append(baseId,
           IF singleMedia THEN ""
           ELSE mediaTypeToTypeNamePrefix(mediaType) \o "Request")

\* the body schema and the wrapper variant rs of one media type are added;
\* rs.content is the content object of requestSchema
AddBodySchema(st, bodySchema, rsId) ==
    [st EXCEPT
        !.request =
            [@ EXCEPT
                !.props = SetProp(@, "body", RefContent(bodySchema.id)),
                !.required = IF Len(bodySchema.content.required) > 0
                             THEN Append(@, "body") ELSE @],
        !.added = Append(@, bodySchema),
        !.refs = Append(@, bodySchema.id),
        !.results = @ \o <<bodySchema,
                           [id |-> rsId, content |-> EmptyContent,
                            shared |-> TRUE]>>]

\* the part of the loop body after bodyContent.schema was resolved
AddBodyContent(st, baseId, mediaType, singleMedia, bodyContentSchema) ==
    IF bodyContentSchema.thrown THEN [st EXCEPT !.thrown = TRUE]
    ELSE AddBodySchema(st,
             [id |-> BodySchemaId(baseId, mediaType, singleMedia),
              content |-> bodyContentSchema.content, shared |-> FALSE],
             RequestVariantId(baseId, mediaType, singleMedia))

\* one pass of the loop over the media types of the request body
RequestBodyOfMedia(st, reg, baseId, bodyContent, singleMedia) ==
    IF st.thrown \/ ~bodyContent.hasSchema THEN st
    ELSE AddBodyContent(st, baseId, bodyContent.mediaType, singleMedia,
                        resolveOpenAPIV3Object(reg, bodyContent.schema))

RECURSIVE RequestBodies(_, _, _, _, _)
RequestBodies(st, reg, baseId, media, k) ==
    IF k > Len(media) THEN st
    ELSE RequestBodies(
             RequestBodyOfMedia(st, reg, baseId, media[k], Len(media) = 1),
             reg, baseId, media, k + 1)

\* a result as the caller sees it once synthesis has returned: an entry that
\* holds requestSchema's content object shows that object's final value
ResultSchema(st, r) ==
    JsonSchema(r.id, IF r.shared THEN st.request ELSE r.content)

\* if (work.parameters) { ... }
WithParameters(reg, baseId, work) ==
    IF work.hasParameters
    THEN NormalizeParameters(InitialSynthesis, reg, baseId, work.parameters, 1)
    ELSE InitialSynthesis

\* if (work.requestBody) { ... } else if (...) { results.push(requestSchema) }
WithRequestBody(st, reg, baseId, work) ==
    IF work.hasBody
    THEN RequestBodies(st, reg, baseId, work.media, 1)
    ELSE IF ~st.thrown /\ Len(st.request.props) > 0
    THEN [st EXCEPT !.results =
             Append(@, [id |-> Append(baseId, "request"),
                        content |-> EmptyContent, shared |-> TRUE])]
    ELSE st

\* return results
Returned(st) ==
    [ thrown  |-> st.thrown,
      results |-> [i \in 1..Len(st.results) |-> ResultSchema(st, st.results[i])],
      added   |-> [i \in 1..Len(st.added) |-> ResultSchema(st, st.added[i])],
      refs    |-> st.refs ]

\* [thrown, results, added, refs]
resolveOpenAPIV3SchemaContentObject(reg, schema) ==
    Returned(WithRequestBody(WithParameters(reg, schema.id, schema.op),
                             reg, schema.id, schema.op))

\* [thrown, results, added, refs]
resolveOpenAPIV3SchemaContent(reg, schema) ==
    IF checkOpenAPIV3SchemaContentObject(schema)
    THEN resolveOpenAPIV3SchemaContentObject(reg, schema)
    ELSE [thrown |-> FALSE, results |-> <<schema>>, added |-> <<>>,
          refs |-> <<>>]

----------------------------------------------------------------------------
(* normalizeContent                                                        *)

\* The depth of nested normalizeContent calls the call stack holds.  The
\* recursion through allOf/$ref is at most one call per registered schema
\* unless it is cyclic, so a deeper recursion is one that never returns
\* (RangeError: Maximum call stack size exceeded).
MaxStack == 4

ConcatDistinct(a, b) ==
    a \o SelectSeq(b, LAMBDA x : x \notin Range(a))

RECURSIVE MergeProps(_, _, _)
MergeProps(props, more, i) ==
    IF i > Len(more) THEN props
    ELSE MergeProps(SetProp(props, more[i].name, more[i].schema), more, i + 1)

\* utils.mergeSchema(work, sub): the keys sub has are merged into work
mergeSchema(work, sub) ==
    [work EXCEPT
        !.type = IF sub.type # "" THEN sub.type ELSE @,
        !.ref = IF sub.ref # NoId THEN sub.ref ELSE @,
        !.hasNot = @ \/ sub.hasNot,
        !.hasAllOf = @ \/ sub.hasAllOf,
        !.allOf = @ \o sub.allOf,
        !.hasProps = @ \/ sub.hasProps,
        !.props = MergeProps(@, sub.props, 1),
        !.required = ConcatDistinct(@, sub.required),
        !.itemsKind = IF sub.itemsKind # "none" THEN sub.itemsKind ELSE @,
        !.items = IF sub.itemsKind # "none" THEN sub.items ELSE @,
        !.minItems = IF sub.minItems # Undefined THEN sub.minItems ELSE @,
        !.hasEnum = @ \/ sub.hasEnum,
        !.enum = IF sub.hasEnum THEN sub.enum ELSE @,
        !.hasConst = @ \/ sub.hasConst,
        !.const = IF sub.hasConst THEN sub.const ELSE @,
        !.ownId = IF sub.ownId # NoId THEN sub.ownId ELSE @]

\* getSubSchema(rootSchema, pointer) for the sub-content the pointer names:
\* the id is the sub-content's own id, else one derived from the pointer
\* (NoId here: an id for which isEmpty() holds)
getSubSchema(rootSchema, sub) == JsonSchema(sub.ownId, sub)

isEmpty(id) == id = NoId

\* the content normalizeContent gives a boolean schema
BooleanContent(b) ==
    IF b = "true" THEN EmptyContent ELSE [EmptyContent EXCEPT !.hasNot = TRUE]

\* DeleteAllOf with the delete left out
KeepAllOf(content) == content

\* delete content.allOf
DeleteAllOf(content) == [content EXCEPT !.hasAllOf = FALSE, !.allOf = <<>>]

\* content.type = 'object' for an untyped content with properties
InferType(content) ==
    IF content.type = "" /\ content.hasProps
    THEN [content EXCEPT !.type = "object"] ELSE content

\* normalizeContent(schema): [err, schema]; err is "" when it returned,
\* "dereference" when resolver.dereference threw, "stack" when the recursion
\* exhausted the call stack.  d is the depth of this call.  The code merges
\* into the schema's own content object and deletes its allOf; normalizing
\* the same schema again then finds no allOf and gives the same content, so
\* the value returned is what is modelled.
RECURSIVE normalizeContent(_, _, _)
RECURSIVE MergeAllOf(_, _, _, _, _)
MergeAllOf(reg, members, i, acc, d) ==
    IF i > Len(members) \/ acc.err # "" THEN acc
    ELSE
      LET sub == members[i] IN
      IF sub.bool = "none" /\ sub.ref # NoId
      THEN IF ~IsRegistered(reg, sub.ref)
           THEN [acc EXCEPT !.err = "dereference"]
           ELSE LET n == normalizeContent(reg, reg[sub.ref], d + 1) IN
                IF n.err # "" THEN [acc EXCEPT !.err = n.err]
                ELSE MergeAllOf(reg, members, i + 1,
                        [acc EXCEPT !.work = mergeSchema(@, n.schema.content)],
                        d)
      ELSE MergeAllOf(reg, members, i + 1,
              [acc EXCEPT !.work = mergeSchema(@, sub)], d)

normalizeContent(reg, schema, d) ==
    LET content == schema.content IN
    IF d > MaxStack THEN [err |-> "stack", schema |-> schema]
    ELSE IF content.bool # "none"
    THEN [err |-> "",
          schema |-> [schema EXCEPT !.content = BooleanContent(content.bool)]]
    ELSE IF content.hasAllOf
    THEN LET m == MergeAllOf(reg, content.allOf, 1,
                             [err |-> "", work |-> content], d)
         IN  [err |-> m.err,
              schema |-> [schema EXCEPT
                             !.content = InferType(DeleteAllOf(m.work))]]
    ELSE [err |-> "", schema |-> [schema EXCEPT !.content = InferType(content)]]

----------------------------------------------------------------------------
(* The type emitter.  An emission is [calls, err]: the calls made on the   *)
(* writer (SchemaConvertor) in order, and "" or the error thrown after     *)
(* them.                                                                   *)

\* one call on the writer; arg is the id, name or text it is given
WriterCall(op, arg, terminate) ==
    [op |-> op, arg |-> arg, terminate |-> terminate]

Emit(calls) == [calls |-> calls, err |-> ""]

Throw(err) == [calls |-> <<>>, err |-> err]

\* e1; e2: the second part runs only if the first did not throw
Then(e1, e2) ==
    IF e1.err # "" THEN e1
    ELSE [calls |-> e1.calls \o e2.calls, err |-> e2.err]

\* utils.toTSType: "" is undefined
toTSType(type) ==
    CASE type = "integer" -> "number"
      [] type \in {"any", "null", "string", "number", "boolean"} -> type
      [] OTHER -> ""

RECURSIVE generateTypeProperty(_, _, _, _)
RECURSIVE generateProperties(_, _, _)
RECURSIVE PropertiesFrom(_, _, _, _)
RECURSIVE generateArrayTypeProperty(_, _, _, _)
RECURSIVE TupleSlots(_, _, _, _, _, _)
RECURSIVE TupleUnion(_, _, _, _, _)

\* generateTypeName(schema, type, terminate)
generateTypeName(reg, schema, type, terminate, d) ==
    LET tsType == toTSType(type) IN
    IF tsType # ""
    THEN Emit(<<WriterCall("outputPrimitiveTypeName", <<tsType>>, terminate)>>)
    ELSE IF type = "object"
    THEN Then(Emit(<<WriterCall("startTypeNest", <<>>, FALSE)>>),
         Then(generateProperties(reg, schema, d),
              Emit(<<WriterCall("endTypeNest", <<>>, terminate)>>)))
    ELSE IF type = "array"
    THEN generateArrayTypeProperty(reg, schema, terminate, d)
    ELSE Throw("unknown type")

\* generateType(schema, terminate)
generateType(reg, schema, terminate, d) ==
    IF schema.content.type = ""
    THEN Emit(<<WriterCall("outputPrimitiveTypeName", <<"any">>, terminate)>>)
    ELSE generateTypeName(reg, schema, schema.content.type, terminate, d)

\* one slot of a tuple that a declared item types
ItemSlot(reg, schema, i, d) ==
    LET n == normalizeContent(reg, getSubSchema(schema, schema.content.items[i]), d)
    IN  IF n.err # "" THEN Throw(n.err)
        ELSE IF isEmpty(n.schema.id)
        THEN generateTypeProperty(reg, n.schema, FALSE, d)
        ELSE Emit(<<WriterCall("outputTypeIdName", n.schema.id, FALSE)>>)

\* the slot at position i (from 0) of a tuple, items being the declared items
Slot(reg, schema, i, effectiveMaxItems, d) ==
    IF i < Len(schema.content.items)
    THEN ItemSlot(reg, schema, i + 1, d)
    ELSE IF i < effectiveMaxItems - 1
    THEN Emit(<<WriterCall("outputStringTypeName", <<"Object">>, FALSE)>>)
    ELSE Emit(<<WriterCall("outputStringTypeName", <<"any">>, FALSE)>>)

\* the slots i .. unionIndex - 1 of one tuple
TupleSlots(reg, schema, i, unionIndex, effectiveMaxItems, d) ==
    IF i >= unionIndex THEN Emit(<<>>)
    ELSE Then(IF i > 0
              THEN Emit(<<WriterCall("outputRawValue", <<", ">>, FALSE)>>)
              ELSE Emit(<<>>),
         Then(Slot(reg, schema, i, effectiveMaxItems, d),
              TupleSlots(reg, schema, i + 1, unionIndex, effectiveMaxItems, d)))

\* UnionSeparator with the separator written after the last tuple too
UnionSeparatorAfterLast(unionIndex, effectiveMaxItems) ==
    IF unionIndex <= effectiveMaxItems
    THEN Emit(<<WriterCall("outputRawValue", <<" | ">>, FALSE)>>)
    ELSE Emit(<<>>)

\* the separator written after the tuple of unionIndex slots
UnionSeparator(unionIndex, effectiveMaxItems) ==
    IF unionIndex < effectiveMaxItems
    THEN Emit(<<WriterCall("outputRawValue", <<" | ">>, FALSE)>>)
    ELSE Emit(<<>>)

\* the tuples of unionIndex .. effectiveMaxItems slots
TupleUnion(reg, schema, unionIndex, effectiveMaxItems, d) ==
    IF unionIndex > effectiveMaxItems THEN Emit(<<>>)
    ELSE Then(Emit(<<WriterCall("outputRawValue", <<"[">>, FALSE)>>),
         Then(TupleSlots(reg, schema, 0, unionIndex, effectiveMaxItems, d),
         Then(Emit(<<WriterCall("outputRawValue", <<"]">>, FALSE)>>),
         Then(UnionSeparator(unionIndex, effectiveMaxItems),
              TupleUnion(reg, schema, unionIndex + 1, effectiveMaxItems, d)))))

Max(a, b) == IF a >= b THEN a ELSE b

\* 1 + Math.max(minItems || 0, items.length)
EffectiveMaxItems(minItems, length) ==
    1 + Max(IF minItems = Undefined THEN 0 ELSE minItems, length)

\* minItems === undefined ? 1 : minItems
FirstUnionIndex(minItems) == IF minItems = Undefined THEN 1 ELSE minItems

\* the items list is emitted as any[]: it is empty and minItems is absent
IsOpenArray(items, minItems) == Len(items) = 0 /\ minItems = Undefined

generateArrayTypeProperty(reg, schema, terminate, d) ==
    LET items == schema.content.items
        minItems == schema.content.minItems
    IN
    IF schema.content.itemsKind = "none"
    THEN Emit(<<WriterCall("outputStringTypeName", <<"any[]">>, terminate)>>)
    ELSE IF schema.content.itemsKind = "single"
    THEN LET n == normalizeContent(reg, getSubSchema(schema, items[1]), d) IN
         IF n.err # "" THEN Throw(n.err)
         ELSE Then(generateTypeProperty(reg, n.schema, FALSE, d),
                   Emit(<<WriterCall("outputStringTypeName", <<"[]">>, terminate)>>))
    ELSE IF IsOpenArray(items, minItems)
    THEN Emit(<<WriterCall("outputStringTypeName", <<"any[]">>, terminate)>>)
    ELSE Then(TupleUnion(reg, schema, FirstUnionIndex(minItems),
                         EffectiveMaxItems(minItems, Len(items)), d),
              Emit(<<WriterCall("outputStringTypeName", <<"">>, terminate)>>))

\* `"${value}"`
Quoted(value) == "\"" \o value \o "\""

\* the literal written for a member of enum, or for const
LiteralOf(content, value) ==
    IF content.type = "integer" THEN value ELSE Quoted(value)

\* the callback of outputArrayedType applied to the members i .. of enum
RECURSIVE EnumMembers(_, _)
EnumMembers(content, i) ==
    IF i > Len(content.enum) THEN <<>>
    ELSE <<WriterCall("outputRawValue",
                      <<LiteralOf(content, content.enum[i])>>, FALSE)>>
         \o EnumMembers(content, i + 1)

\* convertor.outputArrayedType(schema, types, output, terminate): the
\* callback is called for every member, in order
outputArrayedType(memberCalls, terminate) ==
    Emit(<<WriterCall("outputArrayedType", <<>>, terminate)>> \o memberCalls)

\* generateTypeProperty(schema, terminate); anyOf and oneOf are not part of
\* the contents modelled
generateTypeProperty(reg, schema, terminate, d) ==
    LET content == schema.content IN
    IF content.ref # NoId
    THEN IF ~IsRegistered(reg, content.ref) THEN Throw("dereference")
         ELSE LET ref == reg[content.ref]
                  n == normalizeContent(reg, ref, d)
              IN  IF ref.id = NoId THEN Throw("target referenced id is nothing")
                  ELSE IF n.err # "" THEN Throw(n.err)
                  ELSE Emit(<<WriterCall("outputTypeIdName", n.schema.id,
                                         terminate)>>)
    ELSE IF content.hasEnum
    THEN outputArrayedType(EnumMembers(content, 1), terminate)
    ELSE IF content.hasConst
    THEN Emit(<<WriterCall("outputStringTypeName",
                           <<LiteralOf(content, content.const)>>, terminate)>>)
    ELSE generateType(reg, schema, terminate, d)

\* the properties i .. of generateProperties' loop
PropertiesFrom(reg, baseSchema, i, d) ==
    LET props == baseSchema.content.props IN
    IF i > Len(props) THEN Emit(<<>>)
    ELSE
      LET propertyName == props[i].name
          n == normalizeContent(reg, getSubSchema(baseSchema, props[i].schema), d)
      IN  IF n.err # "" THEN Throw(n.err)
          ELSE Then(Emit(<<WriterCall("outputComments", n.schema.id, FALSE),
                           WriterCall("outputPropertyAttribute", <<>>, FALSE),
                           WriterCall("outputPropertyName", <<propertyName>>,
                                      FALSE)>>),
               Then(generateTypeProperty(reg, n.schema, TRUE, d),
                    PropertiesFrom(reg, baseSchema, i + 1, d)))

\* generateProperties(baseSchema)
generateProperties(reg, baseSchema, d) ==
    IF baseSchema.content.hasProps
    THEN PropertiesFrom(reg, baseSchema, 1, d)
    ELSE Emit(<<>>)

\* generateDeclareType(schema)
generateDeclareType(reg, schema, d) ==
    Then(Emit(<<WriterCall("outputExportType", schema.id, FALSE)>>),
         generateTypeProperty(reg, schema, TRUE, d))

\* generateTypeModel(schema)
generateTypeModel(reg, schema, d) ==
    Then(Emit(<<WriterCall("startInterfaceNest", schema.id, FALSE)>>),
    Then(IF schema.content.type = "any"
         THEN Emit(<<WriterCall("outputRawValue",
                                <<"[name: string]: any; // any">>, TRUE)>>)
         ELSE Emit(<<>>),
    Then(generateProperties(reg, schema, d),
         Emit(<<WriterCall("endInterfaceNest", <<>>, FALSE)>>))))

\* generateTypeCollection(schema)
generateTypeCollection(reg, schema, d) ==
    Then(Emit(<<WriterCall("outputExportType", schema.id, FALSE)>>),
         generateArrayTypeProperty(reg, schema, TRUE, d))

\* walkSchema(schema)
walkSchema(reg, schema) ==
    LET n == normalizeContent(reg, schema, 1)
        normalized == n.schema
        type == normalized.content.type
    IN  IF n.err # "" THEN Throw(n.err)
        ELSE Then(Emit(<<WriterCall("outputComments", normalized.id, FALSE)>>),
                  IF type \in {"object", "any"}
                  THEN generateTypeModel(reg, normalized, 1)
                  ELSE IF type = "array"
                  THEN generateTypeCollection(reg, normalized, 1)
                  ELSE generateDeclareType(reg, normalized, 1))

----------------------------------------------------------------------------
(* Operation synthesis applied to the operations of a bounded universe     *)

MaxParams == 2
MaxMedia == 2

ParamNames == {"p", "q"}

\* parameter p carries an array schema, parameter q carries no schema
ParameterObjects ==
    { [name |-> n, in |-> l, required |-> r,
       hasSchema |-> (n = "p"), schema |-> TypeContent("array")] :
          n \in ParamNames, l \in Range(Locations), r \in BOOLEAN }

MediaTypes == {"application/json", "application/xml", "text/csv"}

\* the body schema of application/json has a required member
BodySchemaOf(m) ==
    IF m = "application/json" THEN ObjectContent(<<>>, <<"x">>)
    ELSE ObjectContent(<<>>, <<>>)

\* application/xml is also listed without a schema
MediaObjects ==
    { [mediaType |-> m, hasSchema |-> TRUE, schema |-> BodySchemaOf(m)] :
          m \in MediaTypes }
    \cup { [mediaType |-> "application/xml", hasSchema |-> FALSE,
            schema |-> EmptyContent] }

SeqsUpTo(S, n) == UNION {[1..k -> S] : k \in 0..n}

\* the keys of requestBody.content are distinct
MediaLists ==
    { ms \in SeqsUpTo(MediaObjects, MaxMedia) :
        \A i, j \in 1..Len(ms) : i # j => ms[i].mediaType # ms[j].mediaType }

ParameterLists == SeqsUpTo(ParameterObjects, MaxParams)

\* absent parameters and an absent request body have no entries
IsOperation(o) ==
    /\ ~o.hasParameters => o.parameters = <<>>
    /\ ~o.hasBody => o.media = <<>>

OpId == <<"Op">>

SynthInit ==
    /\ NoGeneration
    /\ \E hp, hb \in BOOLEAN, ps \in ParameterLists, ms \in MediaLists :
          /\ call = [hasParameters |-> hp, parameters |-> ps,
                     hasBody |-> hb, media |-> ms]
          /\ IsOperation(call)
    /\ ret = <<>>
    /\ pc = "synthesize"

Synthesize ==
    /\ pc = "synthesize"
    /\ ret' = resolveOpenAPIV3SchemaContentObject(NoRegistry,
                                                  OperationSchema(OpId, call))
    /\ pc' = "synthesized"
    /\ UNCHANGED <<call, genVars>>

SynthNext == Synthesize

SpecSynth == SynthInit /\ [][SynthNext]_vars

----------------------------------------------------------------------------
(* Claims about operation synthesis (checked under SpecSynth)              *)

Synthesized == pc = "synthesized" /\ ~ret.thrown

ResultIds == {ret.results[i].id : i \in 1..Len(ret.results)}

ResultsWithId(id) == {i \in 1..Len(ret.results) : ret.results[i].id = id}

ParametersIn(L) ==
    {i \in 1..Len(call.parameters) : call.parameters[i].in = L}

GroupId(L) == Append(OpId, L \o "Parameter")

\* C1: for each location L with at least one parameter, the schema
\* <operationId>/<L>Parameter has as property names exactly the names of the
\* parameters in L and as required list exactly the required ones among them.
C1_GroupHoldsOnlyItsLocation ==
    Synthesized =>
        \A k \in 1..Len(Locations) :
            LET L == Locations[k] IN
            ParametersIn(L) # {} =>
                /\ ResultsWithId(GroupId(L)) # {}
                /\ \A i \in ResultsWithId(GroupId(L)) :
                      LET c == ret.results[i].content IN
                      /\ PropNames(c.props) =
                            {call.parameters[j].name : j \in ParametersIn(L)}
                      /\ Range(c.required) =
                            {call.parameters[j].name :
                                j \in {n \in ParametersIn(L) :
                                          call.parameters[n].required}}

MediaWithSchema == {i \in 1..Len(call.media) : call.media[i].hasSchema}

BodyIdOf(i) ==
    Append(OpId, mediaTypeToTypeNamePrefix(call.media[i].mediaType)
                     \o "RequestBody")

WrapperIdOf(i) ==
    Append(OpId, mediaTypeToTypeNamePrefix(call.media[i].mediaType)
                     \o "Request")

\* the ids of the returned schemas are pairwise distinct
DistinctResultIds == Cardinality(ResultIds) = Len(ret.results)

\* C2: with a schema for several media types, each media type M gets a body
\* schema <prefix(M)>RequestBody and a wrapper variant, all ids distinct, and
\* each wrapper's body property references the body schema of its own M.
C2_WrapperReferencesOwnBody ==
    (Synthesized /\ Cardinality(MediaWithSchema) >= 2) =>
        /\ DistinctResultIds
        /\ \A i \in MediaWithSchema :
              /\ Cardinality(ResultsWithId(BodyIdOf(i))) = 1
              /\ Cardinality(ResultsWithId(WrapperIdOf(i))) = 1
              /\ \A w \in ResultsWithId(WrapperIdOf(i)) :
                    LET c == ret.results[w].content IN
                    /\ "body" \in PropNames(c.props)
                    /\ PropSchema(c.props, "body") = RefContent(BodyIdOf(i))

\* what does hold of the wrapper variants: an id per media type, and a body
\* property that references one of the body schemas
C2_PerMediaIds ==
    (Synthesized /\ Cardinality(MediaWithSchema) >= 2) =>
        /\ DistinctResultIds
        /\ \A i \in MediaWithSchema :
              /\ Cardinality(ResultsWithId(BodyIdOf(i))) = 1
              /\ Cardinality(ResultsWithId(WrapperIdOf(i))) = 1

----------------------------------------------------------------------------
(* generateArrayTypeProperty applied to the array schemas of a bounded     *)
(* universe                                                                *)

MaxItems == 3
MaxMinItems == 4

\* an item is a primitive or a schema with an id of its own
ItemSchemas == {TypeContent("string"), [TypeContent("number") EXCEPT !.ownId = <<"Named">>]}

ArraySchemas ==
    { [TypeContent("array") EXCEPT !.itemsKind = k, !.items = is, !.minItems = m] :
          k \in {"none", "single", "list"},
          is \in SeqsUpTo(ItemSchemas, MaxItems),
          m \in {Undefined} \cup 0..MaxMinItems }

\* no items, one item schema, or a list of them
IsArraySchema(c) ==
    /\ c.itemsKind = "none" => c.items = <<>>
    /\ c.itemsKind = "single" => Len(c.items) = 1

ArrayInit ==
    /\ NoGeneration
    /\ call \in {c \in ArraySchemas : IsArraySchema(c)}
    /\ ret = <<>>
    /\ pc = "generateArray"

GenerateArray ==
    /\ pc = "generateArray"
    /\ ret' = generateArrayTypeProperty(NoRegistry, JsonSchema(<<"T">>, call),
                                        TRUE, 1)
    /\ pc' = "generatedArray"
    /\ UNCHANGED <<call, genVars>>

ArrayNext == GenerateArray

SpecArray == ArrayInit /\ [][ArrayNext]_vars

(* Claims about tuple emission (checked under SpecArray)                   *)

IsRaw(c, text) == c.op = "outputRawValue" /\ c.arg = <<text>>

\* The shape of an emission: one number per tuple, its count of slots, and
\* -1 per union separator, in the order written.
RECURSIVE Shape(_, _, _, _)
Shape(calls, i, count, acc) ==
    IF i > Len(calls) THEN acc
    ELSE LET c == calls[i] IN
         IF IsRaw(c, "[") THEN Shape(calls, i + 1, 0, acc)
         ELSE IF IsRaw(c, "]") THEN Shape(calls, i + 1, -1, Append(acc, count))
         ELSE IF IsRaw(c, " | ") THEN Shape(calls, i + 1, -1, Append(acc, -1))
         ELSE IF IsRaw(c, ", ") THEN Shape(calls, i + 1, count, acc)
         ELSE IF count >= 0 THEN Shape(calls, i + 1, count + 1, acc)
         ELSE Shape(calls, i + 1, count, acc)

\* tuples of lo, lo + 1, ..., hi slots with one separator between neighbours
UnionOfLengths(lo, hi) ==
    [k \in 1..(2 * (hi - lo) + 1) |->
        IF k % 2 = 1 THEN lo + (k - 1) \div 2 ELSE -1]

ClaimedFirst(m) == IF m = Undefined THEN 1 ELSE m

ClaimedLast(m, L) == 1 + Max(IF m = Undefined THEN 0 ELSE m, L)

TupleListEmitted == pc = "generatedArray" /\ call.itemsKind = "list"

\* C3 as claimed: every items list of length L with optional minItems m is
\* emitted as the union of the tuples of (m, else 1) .. 1 + max(m or 0, L)
\* slots, in increasing order, one separator between consecutive ones.
C3_EveryItemsListIsTupleUnion ==
    TupleListEmitted =>
        /\ ret.err = ""
        /\ Shape(ret.calls, 1, -1, <<>>) =
              UnionOfLengths(ClaimedFirst(call.minItems),
                             ClaimedLast(call.minItems, Len(call.items)))

\* C3 as amended: the same for every items list except the empty list without
\* minItems, which is emitted as the single open array type any[].
C3_TupleUnionUnlessOpenArray ==
    TupleListEmitted =>
        /\ ret.err = ""
        /\ IF Len(call.items) = 0 /\ call.minItems = Undefined
           THEN ret.calls = <<WriterCall("outputStringTypeName", <<"any[]">>, TRUE)>>
           ELSE Shape(ret.calls, 1, -1, <<>>) =
                   UnionOfLengths(ClaimedFirst(call.minItems),
                                  ClaimedLast(call.minItems, Len(call.items)))

\* items:[X,Y] with minItems 1 was emitted as tuples of 1, 2 and 3 slots
C3_Witness ==
    /\ TupleListEmitted
    /\ Len(call.items) = 2 /\ call.minItems = 1
    /\ Shape(ret.calls, 1, -1, <<>>) = <<1, -1, 2, -1, 3>>

\* The tuples of an emission: per tuple, the calls that type its slots, in
\* the order written (every item of the universe is typed by one call).
RECURSIVE TuplesOf(_, _, _, _)
TuplesOf(calls, i, slots, acc) ==
    IF i > Len(calls) THEN acc
    ELSE LET c == calls[i] IN
         IF IsRaw(c, "[") THEN TuplesOf(calls, i + 1, <<>>, acc)
         ELSE IF IsRaw(c, "]") THEN TuplesOf(calls, i + 1, <<>>, Append(acc, slots))
         ELSE IF IsRaw(c, " | ") \/ IsRaw(c, ", ")
         THEN TuplesOf(calls, i + 1, slots, acc)
         ELSE IF c.op = "outputStringTypeName" /\ c.arg = <<"">>
         THEN TuplesOf(calls, i + 1, slots, acc)
         ELSE TuplesOf(calls, i + 1, Append(slots, c), acc)

\* the call that types a slot from an item schema: the name of a schema
\* with an id of its own, else the primitive type
TypedFrom(item) ==
    IF item.ownId # NoId
    THEN WriterCall("outputTypeIdName", item.ownId, FALSE)
    ELSE WriterCall("outputPrimitiveTypeName", <<toTSType(item.type)>>, FALSE)

GenericObjectSlot == WriterCall("outputStringTypeName", <<"Object">>, FALSE)

OpenAnySlot == WriterCall("outputStringTypeName", <<"any">>, FALSE)

TuplesEmitted ==
    TupleListEmitted /\ ~IsOpenArray(call.items, call.minItems)

\* C11: in every emitted tuple, a slot below the length of the items list
\* is typed from the item schema at its position; of the slots at or beyond
\* that length, the last slot of the tuple is the open any type and every
\* other one is the generic object type.
C11_SlotTypes ==
    TuplesEmitted =>
        \A t \in Range(TuplesOf(ret.calls, 1, <<>>, <<>>)) :
            \A i \in 1..Len(t) :
                IF i <= Len(call.items) THEN t[i] = TypedFrom(call.items[i])
                ELSE IF i = Len(t) THEN t[i] = OpenAnySlot
                ELSE t[i] = GenericObjectSlot

----------------------------------------------------------------------------
(* normalizeContent applied to the schemas of a bounded universe           *)

MaxAllOf == 2

IdA == <<"A">>
IdB == <<"B">>
IdC == <<"C">>

PropsContent(name, required) ==
    [EmptyContent EXCEPT
        !.hasProps = TRUE,
        !.props = <<[name |-> name, schema |-> TypeContent("string")]>>,
        !.required = required]

AllOfContent(members) ==
    [EmptyContent EXCEPT !.hasAllOf = TRUE, !.allOf = members]

BoolContent(b) == [EmptyContent EXCEPT !.bool = b]

\* the members of an allOf list: inline schemas, a boolean, an inline schema
\* with an allOf of its own, and references
AllOfMembers ==
    { PropsContent("a", <<>>), PropsContent("b", <<"b">>), BoolContent("true"),
      AllOfContent(<<PropsContent("n", <<>>)>>),
      RefContent(IdA), RefContent(IdB), RefContent(IdC) }

AllOfLists == SeqsUpTo(AllOfMembers, MaxAllOf) \ {<<>>}

\* the schema that is normalized
ContentsOfA ==
    {BoolContent("true"), BoolContent("false"), PropsContent("a", <<"a">>)}
        \cup {AllOfContent(ms) : ms \in AllOfLists}
        \cup {[PropsContent("a", <<"a">>) EXCEPT !.hasAllOf = TRUE, !.allOf = ms] :
                 ms \in AllOfLists}

ContentsOfB ==
    { BoolContent("false"), PropsContent("b", <<>>),
      AllOfContent(<<RefContent(IdC)>>), AllOfContent(<<RefContent(IdA)>>),
      AllOfContent(<<PropsContent("c", <<"c">>), RefContent(IdC)>>) }

ContentsOfC ==
    { PropsContent("c", <<>>), AllOfContent(<<RefContent(IdB)>>) }

RegistryOf(a, b, c, withC) ==
    [id \in {IdA, IdB} \cup (IF withC THEN {IdC} ELSE {}) |->
        JsonSchema(id, IF id = IdA THEN a ELSE IF id = IdB THEN b ELSE c)]

NormInit ==
    /\ NoGeneration
    /\ \E a \in ContentsOfA, b \in ContentsOfB, c \in ContentsOfC,
          withC \in BOOLEAN :
          /\ withC \/ c = PropsContent("c", <<>>)
          /\ call = [reg |-> RegistryOf(a, b, c, withC), schema |-> JsonSchema(IdA, a)]
    /\ ret = <<>>
    /\ pc = "normalize"

Normalize ==
    /\ pc = "normalize"
    /\ ret' = normalizeContent(call.reg, call.schema, 1)
    /\ pc' = "normalized"
    /\ UNCHANGED <<call, genVars>>

NormNext == Normalize

SpecNorm == NormInit /\ [][NormNext]_vars

(* Claims about normalizeContent (checked under SpecNorm)                  *)

Normalized == pc = "normalized" /\ ret.err = ""

\* The property names and required names a schema contributes when it is
\* merged: its own, and those of the members of its allOf (a referenced
\* member standing for the schema it names).
RECURSIVE Contributed(_, _)
Contributed(reg, content) ==
    LET own == [props |-> PropNames(content.props),
                required |-> Range(content.required)]
        OfMember(m) ==
            IF m.ref # NoId THEN Contributed(reg, reg[m.ref].content)
            ELSE [props |-> PropNames(m.props), required |-> Range(m.required)]
        members == {OfMember(content.allOf[i]) : i \in 1..Len(content.allOf)}
    IN  [props |-> own.props \cup UNION {m.props : m \in members},
         required |-> own.required \cup UNION {m.required : m \in members}]

\* C6: the content normalizeContent returns is never a boolean and has no
\* allOf key; true becomes {}, false becomes {not:{}}, and every member of
\* allOf (a $ref member dereferenced and normalized) is merged into the node.
C6_NoBooleanNoAllOf ==
    Normalized =>
        LET in == call.schema.content
            norm == ret.schema.content
            all == Contributed(call.reg, in)
        IN  /\ norm.bool = "none"
            /\ ~norm.hasAllOf /\ norm.allOf = <<>>
            /\ in.bool = "true" => norm = EmptyContent
            /\ in.bool = "false" => norm = [EmptyContent EXCEPT !.hasNot = TRUE]
            /\ in.bool = "none" =>
                  /\ PropNames(norm.props) = all.props
                  /\ Range(norm.required) = all.required

\* an allOf with a referenced member, which has an allOf itself, was merged
C6_Witness ==
    /\ Normalized
    /\ call.schema.content.hasAllOf
    /\ \E i \in 1..Len(call.schema.content.allOf) :
          /\ call.schema.content.allOf[i] = RefContent(IdB)
          /\ call.reg[IdB].content.hasAllOf
    /\ "c" \in PropNames(ret.schema.content.props)

----------------------------------------------------------------------------
(* The resolver (ReferenceResolver), the tree builder and the writer       *)
(* (SchemaConvertor)                                                       *)

\* every $ref searchAllSubSchema finds in a JSON schema content
RECURSIVE AllRefs(_)
AllRefs(content) ==
    (IF content.ref # NoId THEN {content.ref} ELSE {})
        \cup UNION {AllRefs(content.allOf[i]) : i \in 1..Len(content.allOf)}
        \cup UNION {AllRefs(content.items[i]) : i \in 1..Len(content.items)}
        \cup UNION {AllRefs(content.props[i].schema) : i \in 1..Len(content.props)}

\* the references registering a schema records: those of a JSON schema
\* content; the fields of an operation object are not searched
ReferencesOf(schema) == IF schema.isOp THEN {} ELSE AllRefs(schema.content)

\* the referenced ids that are not registered yet
Unregistered == referenced \ DOMAIN registry

InjectedIds == {injected[i].id : i \in 1..Len(injected)}

InjectedSchema(id) ==
    injected[CHOOSE i \in 1..Len(injected) : injected[i].id = id]

\* the schema a resolve pass registers for id: one handed over by addSchema,
\* else a document the loader fetches
Available(id) == id \in InjectedIds \/ id \in DOMAIN loadable

SchemaFor(id) == IF id \in InjectedIds THEN InjectedSchema(id) ELSE loadable[id]

Register(reg, schema) ==
    [id \in DOMAIN reg \cup {schema.id} |->
        IF id = schema.id THEN schema ELSE reg[id]]

\* buildSchemaMergedMap: a leaf per schema at the path of its id, a later
\* schema replacing an earlier one at the same path; order lists the paths
\* in the order their nodes were created
RECURSIVE MergedMap(_, _, _)
MergedMap(list, i, acc) ==
    IF i > Len(list) THEN acc
    ELSE MergedMap(list, i + 1,
            [leaves |-> Register(acc.leaves, list[i]),
             order |-> IF list[i].id \in DOMAIN acc.leaves THEN acc.order
                       ELSE Append(acc.order, list[i].id)])

buildSchemaMergedMap(list) == MergedMap(list, 1, NoMap)

IsPrefix(p, q) == Len(p) < Len(q) /\ SubSeq(q, 1, Len(p)) = p

\* Object.keys of the tree node at path prefix: the next segments of the
\* paths below it, in the order the keys were created
RECURSIVE KeysFrom(_, _, _, _)
KeysFrom(order, prefix, i, acc) ==
    IF i > Len(order) THEN acc
    ELSE LET q == order[i]
             key == q[Len(prefix) + 1]
         IN  IF IsPrefix(prefix, q) /\ key \notin Range(acc)
             THEN KeysFrom(order, prefix, i + 1, Append(acc, key))
             ELSE KeysFrom(order, prefix, i + 1, acc)

ObjectKeys(m, prefix) == KeysFrom(m.order, prefix, 1, <<>>)

\* the strings that occur as keys, in the order Array.prototype.sort gives
\* strings (by UTF-16 code unit)
KeyOrder ==
    << "A", "B", "N", "Op", "R", "jsonRequest", "jsonRequestBody",
       "queryParameter", "request", "xmlRequest", "xmlRequestBody" >>

Rank(key) == CHOOSE k \in 1..Len(KeyOrder) : KeyOrder[k] = key

\* SortedKeys with the sort left out
UnsortedKeys(keys) == keys

\* Object.keys(map).sort()
SortedKeys(keys) == SortSeq(keys, LAMBDA a, b : Rank(a) < Rank(b))

\* the writer's nesting depth after the calls
RECURSIVE NestingDepth(_)
NestingDepth(calls) ==
    IF calls = <<>> THEN 0
    ELSE LET c == calls[Len(calls)]
             before == NestingDepth(SubSeq(calls, 1, Len(calls) - 1))
         IN  IF c.op \in {"startNest", "startInterfaceNest", "startTypeNest"}
             THEN before + 1
             ELSE IF c.op \in {"endNest", "endInterfaceNest", "endTypeNest"}
             THEN before - 1
             ELSE before

----------------------------------------------------------------------------
(* generate()                                                              *)

\* the statements of generate(), in order
GenerateWithoutSecondResolve ==
    <<"resolve", "synthesize", "build", "start", "walk", "end">>

GenerateSteps ==
    <<"resolve", "synthesize", "resolve", "build", "start", "walk", "end">>

Running(name) == pc = "running" /\ GenerateSteps[step] = name

\* Rejects with the statement's error swallowed
IgnoresErrors(err) == FALSE

\* an error thrown by the statement that runs rejects generate()
Rejects(err) == err # ""

\* await this.resolver.resolve(): the call
ResolveStart ==
    /\ Running("resolve") /\ ~resolving
    /\ resolving' = TRUE
    /\ resolveCalls' = resolveCalls + 1
    /\ UNCHANGED <<call, ret, pc, registry, regOrder, referenced, injected,
                   loadable, resolveDone, step, schemas, map, marked, stack,
                   out, result>>

\* resolve(): a referenced id that is not registered is registered, with the
\* references of its own content
ResolveRegister ==
    /\ Running("resolve") /\ resolving
    /\ \E id \in Unregistered :
          /\ Available(id)
          /\ registry' = Register(registry, SchemaFor(id))
          /\ regOrder' = Append(regOrder, id)
          /\ referenced' = referenced \cup ReferencesOf(SchemaFor(id))
    /\ UNCHANGED <<call, ret, pc, injected, loadable, resolving, resolveCalls,
                   resolveDone, step, schemas, map, marked, stack, out, result>>

\* resolve(): a referenced id can not be loaded
ResolveFail ==
    /\ Running("resolve") /\ resolving
    /\ \E id \in Unregistered : ~Available(id)
    /\ pc' = "failed"
    /\ resolving' = FALSE
    /\ UNCHANGED <<call, ret, registry, regOrder, referenced, injected, loadable,
                   resolveCalls, resolveDone, step, schemas, map, marked, stack,
                   out, result>>

\* resolve(): every referenced id is registered; the await returns
ResolveFinish ==
    /\ Running("resolve") /\ resolving
    /\ Unregistered = {}
    /\ resolving' = FALSE
    /\ resolveDone' = resolveDone + 1
    /\ step' = step + 1
    /\ UNCHANGED <<call, ret, pc, registry, regOrder, referenced, injected,
                   loadable, resolveCalls, schemas, map, marked, stack, out,
                   result>>

\* getAllRegisteredSchema().map(resolveOpenAPIV3SchemaContent): the results
\* of the schemas i .. in registration order.
\* The result r of one schema put before the results of the later ones:
SynthesisWith(r, rest) ==
    IF r.thrown THEN [rest EXCEPT !.thrown = TRUE]
    ELSE [thrown |-> rest.thrown,
          lists |-> <<r.results>> \o rest.lists,
          added |-> r.added \o rest.added,
          refs |-> r.refs \o rest.refs]

RECURSIVE SynthesisFrom(_, _, _)
SynthesisFrom(reg, ids, i) ==
    IF i > Len(ids)
    THEN [thrown |-> FALSE, lists |-> <<>>, added |-> <<>>, refs |-> <<>>]
    ELSE SynthesisWith(resolveOpenAPIV3SchemaContent(reg, reg[ids[i]]),
                       SynthesisFrom(reg, ids, i + 1))

\* lists.reduce((prv, target) => prv.concat(target)), without initial value
RECURSIVE Concat(_, _)
Concat(lists, i) ==
    IF i > Len(lists) THEN <<>> ELSE lists[i] \o Concat(lists, i + 1)

ReduceThrows(lists) == Len(lists) = 0

\* the error the synthesis pass ends with, "" if none
SynthesisError(r) ==
    IF r.thrown THEN "dereference"
    ELSE IF ReduceThrows(r.lists) THEN "reduce" ELSE ""

\* the synthesis pass over every registered schema
SynthesizeAll ==
    /\ Running("synthesize")
    /\ \E r \in {SynthesisFrom(registry, regOrder, 1)} :
          IF Rejects(SynthesisError(r))
          THEN /\ pc' = "failed"
               /\ UNCHANGED <<step, schemas, injected, referenced>>
          ELSE /\ schemas' = Concat(r.lists, 1)
               /\ injected' = injected \o r.added
               /\ referenced' = referenced \cup Range(r.refs)
               /\ step' = step + 1
               /\ pc' = pc
    /\ UNCHANGED <<call, ret, registry, regOrder, loadable, resolving,
                   resolveCalls, resolveDone, map, marked, stack, out, result>>

\* the list the tree is built from
TreeSource == schemas

\* this.convertor.buildSchemaMergedMap(schemas, typeMarker)
BuildTree ==
    /\ Running("build")
    /\ map' = buildSchemaMergedMap(TreeSource)
    /\ marked' = {TreeSource[i].id : i \in 1..Len(TreeSource)}
    /\ step' = step + 1
    /\ UNCHANGED <<call, ret, pc, registry, regOrder, referenced, injected,
                   loadable, resolving, resolveCalls, resolveDone, schemas,
                   stack, out, result>>

\* this.convertor.start(); this.walk(map): the call
Start ==
    /\ Running("start")
    /\ out' = Append(out, WriterCall("start", <<>>, FALSE))
    /\ stack' = <<[prefix |-> <<>>, keys |-> SortedKeys(ObjectKeys(map, <<>>))]>>
    /\ step' = step + 1
    /\ UNCHANGED <<call, ret, pc, registry, regOrder, referenced, injected,
                   loadable, resolving, resolveCalls, resolveDone, schemas, map,
                   marked, result>>

\* walk(): one pass of the loop over the keys of a node
WalkKey ==
    /\ Running("walk")
    /\ stack # <<>> /\ stack[Len(stack)].keys # <<>>
    /\ LET top == stack[Len(stack)]
           key == Head(top.keys)
           value == Append(top.prefix, key)
           e == IF value \in marked
                THEN walkSchema(registry, map.leaves[value])
                ELSE Emit(<<>>)
           children == ObjectKeys(map, value)
           rest == [stack EXCEPT ![Len(stack)].keys = Tail(top.keys)]
       IN  IF Rejects(e.err)
           THEN /\ out' = out \o e.calls
                /\ pc' = "failed"
                /\ UNCHANGED <<marked, stack>>
           ELSE /\ marked' = marked \ {value}
                /\ pc' = pc
                /\ IF children # <<>>
                   THEN /\ out' = out \o e.calls
                                    \o <<WriterCall("startNest", <<key>>, FALSE)>>
                        /\ stack' = Append(rest, [prefix |-> value,
                                                  keys |-> SortedKeys(children)])
                   ELSE /\ out' = out \o e.calls
                        /\ stack' = rest
    /\ UNCHANGED <<call, ret, registry, regOrder, referenced, injected, loadable,
                   resolving, resolveCalls, resolveDone, step, schemas, map,
                   result>>

\* walk(): the loop of a node is over; the nested walk returns to endNest()
WalkReturn ==
    /\ Running("walk")
    /\ stack # <<>> /\ stack[Len(stack)].keys = <<>>
    /\ stack' = SubSeq(stack, 1, Len(stack) - 1)
    /\ IF Len(stack) > 1
       THEN /\ out' = Append(out, WriterCall("endNest", <<>>, FALSE))
            /\ step' = step
       ELSE /\ out' = out
            /\ step' = step + 1
    /\ UNCHANGED <<call, ret, pc, registry, regOrder, referenced, injected,
                   loadable, resolving, resolveCalls, resolveDone, schemas, map,
                   marked, result>>

\* const result = this.convertor.end(); return result
End ==
    /\ Running("end")
    /\ out' = Append(out, WriterCall("end", <<>>, FALSE))
    /\ result' = "text"
    /\ pc' = "done"
    /\ UNCHANGED <<call, ret, registry, regOrder, referenced, injected, loadable,
                   resolving, resolveCalls, resolveDone, step, schemas, map,
                   marked, stack>>

Next ==
    \/ ResolveStart \/ ResolveRegister \/ ResolveFail \/ ResolveFinish
    \/ SynthesizeAll \/ BuildTree \/ Start \/ WalkKey \/ WalkReturn \/ End

----------------------------------------------------------------------------
(* generate() over the documents of a bounded universe                     *)

IdN == <<"A", "N">>
IdR == <<"R">>

PropertyOf(name, schema) == [name |-> name, schema |-> schema]

\* an object with a property whose inline object type has an unknown type
NestedUnknown ==
    ObjectContent(
        <<PropertyOf("p", TypeContent("string")),
          PropertyOf("q", ObjectContent(
                              <<PropertyOf("r", TypeContent("bogus"))>>, <<>>))>>,
        <<"p">>)

TupleContent ==
    [TypeContent("array") EXCEPT !.itemsKind = "list",
                                 !.items = <<TypeContent("string")>>]

DocumentsA ==
    { TypeContent("string"), TypeContent("bogus"), NestedUnknown, TupleContent,
      ObjectContent(<<PropertyOf("p", RefContent(IdB))>>, <<>>),
      ObjectContent(<<PropertyOf("p", RefContent(IdR))>>, <<>>),
      RefContent(IdB), AllOfContent(<<RefContent(IdB)>>) }

DocumentsB ==
    { TypeContent("string"), BoolContent("true"),
      ObjectContent(<<PropertyOf("p", RefContent(IdA))>>, <<>>),
      RefContent(IdA), AllOfContent(<<RefContent(IdA)>>) }

DocumentsN == {TypeContent("string"), TypeContent("bogus")}

QueryParameter ==
    [name |-> "q", in |-> "query", required |-> TRUE, hasSchema |-> TRUE,
     schema |-> TypeContent("integer")]

MediaOf(mediaType, schema) ==
    [mediaType |-> mediaType, hasSchema |-> TRUE, schema |-> schema]

\* the operations of the documents: with a query parameter; with a body in two
\* media types; with a body schema that is a reference; with a parameter and
\* a body schema that references an external document
DocumentOperations ==
    { [hasParameters |-> TRUE, parameters |-> <<QueryParameter>>,
       hasBody |-> FALSE, media |-> <<>>],
      [hasParameters |-> FALSE, parameters |-> <<>>, hasBody |-> TRUE,
       media |-> <<MediaOf("application/json", ObjectContent(<<>>, <<"x">>)),
                   MediaOf("application/xml", TypeContent("string"))>>],
      [hasParameters |-> FALSE, parameters |-> <<>>, hasBody |-> TRUE,
       media |-> <<MediaOf("application/json", RefContent(IdB)),
                   MediaOf("application/xml", TypeContent("string"))>>],
      [hasParameters |-> TRUE, parameters |-> <<QueryParameter>>,
       hasBody |-> TRUE,
       media |-> <<MediaOf("application/json",
                       ObjectContent(<<PropertyOf("x", RefContent(IdR))>>, <<>>)),
                   MediaOf("application/xml", TypeContent("string"))>>] }

\* the ids of the documents in the two registration orders explored
DocumentIds == <<IdA, IdN, IdB, OpId>>

Reverse(seq) == [i \in 1..Len(seq) |-> seq[Len(seq) + 1 - i]]

GenInit ==
    /\ call = <<>> /\ ret = <<>> /\ pc = "running"
    /\ \E present \in SUBSET Range(DocumentIds),
          a \in DocumentsA, b \in DocumentsB, n \in DocumentsN,
          op \in DocumentOperations, backwards \in BOOLEAN :
          LET SchemaOf(id) ==
                  IF id = OpId THEN OperationSchema(OpId, op)
                  ELSE JsonSchema(id, IF id = IdA THEN a
                                      ELSE IF id = IdB THEN b ELSE n)
              ids == SelectSeq(DocumentIds, LAMBDA id : id \in present)
          IN  /\ IdA \in present \/ a = TypeContent("string")
              /\ IdB \in present \/ b = TypeContent("string")
              /\ IdN \in present \/ n = TypeContent("string")
              /\ OpId \in present \/ op.media = <<>>
              /\ registry = [id \in present |-> SchemaOf(id)]
              /\ regOrder = IF backwards THEN Reverse(ids) ELSE ids
              /\ referenced = UNION {ReferencesOf(SchemaOf(id)) : id \in present}
    /\ loadable \in {NoRegistry, [id \in {IdR} |-> JsonSchema(IdR, TypeContent("string"))]}
    /\ injected = <<>> /\ resolving = FALSE
    /\ resolveCalls = 0 /\ resolveDone = 0 /\ step = 1 /\ schemas = <<>>
    /\ map = NoMap /\ marked = {} /\ stack = <<>> /\ out = <<>>
    /\ result = "none"

Spec == GenInit /\ [][Next]_vars

----------------------------------------------------------------------------
(* Properties of generate()                                                *)

Finished == pc \in {"done", "failed"}

\* a call that opens the declaration of a schema
Opening(c) == c.op \in {"startInterfaceNest", "outputExportType"}

\* the positions in out at which the schema id is declared
DeclarationsOf(id) == {i \in 1..Len(out) : Opening(out[i]) /\ out[i].arg = id}

\* the calls of the declaration of id: from its opening call up to the next
\* opening call
DeclarationCalls(id) ==
    LET i == CHOOSE i \in DeclarationsOf(id) : TRUE
        later == {j \in (i + 1)..Len(out) : Opening(out[j])}
        last == IF later = {} THEN Len(out)
                ELSE (CHOOSE j \in later : \A k \in later : j <= k) - 1
    IN  SubSeq(out, i, last)

\* the declaration of id names the schema other as a type
RendersAsReference(id, other) ==
    \E k \in 1..Len(DeclarationCalls(id)) :
        /\ DeclarationCalls(id)[k].op = "outputTypeIdName"
        /\ DeclarationCalls(id)[k].arg = other

\* the registry holds the two schemas A and B, each with a $ref to the other
ReferenceCycle ==
    /\ DOMAIN registry = {IdA, IdB}
    /\ IdB \in ReferencesOf(registry[IdA])
    /\ IdA \in ReferencesOf(registry[IdB])

\* C4: when the registered schemas A and B reference each other, generate()
\* does not fail, and once it has returned each of A and B is declared
\* exactly once and each declaration names the other as a type reference.
C4_CycleDeclaredOnceEach ==
    ReferenceCycle =>
        /\ pc # "failed"
        /\ pc = "done" =>
              /\ Cardinality(DeclarationsOf(IdA)) = 1
              /\ Cardinality(DeclarationsOf(IdB)) = 1
              /\ RendersAsReference(IdA, IdB)
              /\ RendersAsReference(IdB, IdA)

\* the keys of the tree node at path prefix, as a set
KeysBelow(prefix) ==
    {q[Len(prefix) + 1] : q \in {q \in DOMAIN map.leaves : IsPrefix(prefix, q)}}

\* the keys of S in ascending order
RECURSIVE Ascending(_)
Ascending(S) ==
    IF S = {} THEN <<>>
    ELSE LET k == CHOOSE k \in S : \A o \in S : Rank(k) <= Rank(o)
         IN  <<k>> \o Ascending(S \ {k})

IsAscending(keys) ==
    \A i, j \in 1..Len(keys) : i < j => Rank(keys[i]) < Rank(keys[j])

\* the writer calls of a walk that takes the keys of every level in
\* ascending order and declares the leaf of a key before it opens the
\* namespace of that key
RECURSIVE SortedWalk(_, _)
SortedWalk(prefix, keys) ==
    IF keys = <<>> THEN <<>>
    ELSE LET value == Append(prefix, Head(keys))
             leaf == IF value \in DOMAIN map.leaves
                     THEN walkSchema(registry, map.leaves[value]).calls
                     ELSE <<>>
             below == Ascending(KeysBelow(value))
         IN  leaf
             \o (IF below = <<>> THEN <<>>
                 ELSE <<WriterCall("startNest", <<Head(keys)>>, FALSE)>>
                      \o SortedWalk(value, below)
                      \o <<WriterCall("endNest", <<>>, FALSE)>>)
             \o SortedWalk(prefix, Tail(keys))

\* C5: walk() takes the keys of every level in ascending order, and the
\* writer calls of a run that returned are those of the sorted walk with
\* each leaf declared before the namespace of its key is opened: they are
\* a function of the registered schemas alone, whatever the order in which
\* the schemas were registered.
C5_SortedLeafFirstWalk ==
    /\ \A f \in 1..Len(stack) : IsAscending(stack[f].keys)
    /\ pc = "done" =>
          out = <<WriterCall("start", <<>>, FALSE)>>
                \o SortedWalk(<<>>, Ascending(KeysBelow(<<>>)))
                \o <<WriterCall("end", <<>>, FALSE)>>

\* a run returned whose tree holds a key with a leaf and a namespace, and
\* whose root keys were created in an order that is not ascending
C5_Witness ==
    /\ pc = "done"
    /\ ~IsAscending(ObjectKeys(map, <<>>))
    /\ \E id \in DOMAIN map.leaves :
          /\ KeysBelow(id) # {}
          /\ \E i, j \in 1..Len(out) :
                /\ i < j
                /\ Opening(out[i]) /\ out[i].arg = id
                /\ out[j] = WriterCall("startNest", <<id[Len(id)]>>, FALSE)

\* C7: generate() is all-or-nothing: a run that failed made no end() call
\* and returned no text, text is returned only by a run that is done, and
\* in a run that is done every leaf of the tree was declared and its
\* emission threw no error.
C7_AllOrNothing ==
    /\ pc = "failed" =>
          /\ result = "none"
          /\ \A i \in 1..Len(out) : out[i].op # "end"
    /\ result # "none" => pc = "done"
    /\ pc = "done" =>
          \A id \in DOMAIN map.leaves :
              /\ walkSchema(registry, map.leaves[id]).err = ""
              /\ DeclarationsOf(id) # {}

\* a run failed on an unknown type after the writer was given declarations
C7_Witness ==
    /\ pc = "failed"
    /\ \E i \in 1..Len(out) : Opening(out[i])
    /\ \E id \in DOMAIN map.leaves :
          walkSchema(registry, map.leaves[id]).err = "unknown type"

\* C8 as stated: every run of generate() that is over invoked resolve()
\* exactly twice.
C8_ResolveExactlyTwice == Finished => resolveCalls = 2

\* C8: resolve() is invoked at most twice and never while an invocation is
\* running; the second invocation starts only after the first has completed
\* and the synthesis statement has run; the tree is built and the writer is
\* called only after the second invocation has completed; a run that
\* returned invoked resolve() exactly twice.
C8_ResolveTwiceInSequence ==
    /\ resolveCalls <= 2
    /\ resolveDone <= resolveCalls
    /\ resolveCalls <= resolveDone + 1
    /\ resolving => resolveCalls = resolveDone + 1
    /\ resolveCalls = 2 => resolveDone >= 1 /\ step >= 3
    /\ (map # NoMap \/ out # <<>>) => resolveDone = 2
    /\ pc = "done" => resolveCalls = 2 /\ resolveDone = 2

\* a run returned after its second resolve() registered synthesized schemas
C8_Witness ==
    /\ pc = "done"
    /\ resolveCalls = 2
    /\ \E i \in 1..Len(injected) : IsRegistered(registry, injected[i].id)

\* C9: the nesting depth of the writer is never negative, and it is zero
\* whenever generate() is over, whether it returned or failed.
C9_NestingBalanced ==
    /\ \A k \in 0..Len(out) : NestingDepth(SubSeq(out, 1, k)) >= 0
    /\ Finished => NestingDepth(out) = 0

\* C10: once the tree is built, the schemas with a leaf are exactly the
\* schemas of the registry as the second resolve() left it.
C10_LeavesAreTheRegistry ==
    (map # NoMap /\ resolveDone = 2) => DOMAIN map.leaves = DOMAIN registry

----------------------------------------------------------------------------
(* parseSchema and searchAllSubSchema                                      *)
(*                                                                         *)
(* A node of a document is [id, dollarId, ref, subs, hasPaths, paths]: the *)
(* values of its keys id, $id and $ref (NoId when absent), its keywords    *)
(* that hold a sub-schema, in the order walk() takes them, and the paths   *)
(* object of an OpenAPI document.  A relative id or reference starts with  *)
(* "#".                                                                    *)

SearchNode(id, dollarId, ref, subs) ==
    [id |-> id, dollarId |-> dollarId, ref |-> ref, subs |-> subs,
     hasPaths |-> FALSE, paths |-> <<>>]

PlainNode == SearchNode(NoId, NoId, NoId, <<>>)

SubOf(key, node) == [key |-> key, node |-> node]

HasKey(s, key) == \E i \in 1..Len(s.subs) : s.subs[i].key = key

\* getIdPropertyName(type) / getId(type, content)
getId(type, content) == IF type = "Draft04" THEN content.id ELSE content.dollarId

\* setId(type, content, id)
setId(type, content, id) ==
    IF getId(type, content) # NoId THEN content
    ELSE IF type = "Draft04" THEN [content EXCEPT !.id = id]
    ELSE [content EXCEPT !.dollarId = id]

\* setSubIds(obj, type, prefix) for the paths object: every path item is
\* given the id #/paths/<path>
setSubIds(paths, type, prefix) ==
    [i \in 1..Len(paths) |->
        [paths[i] EXCEPT !.item = setId(type, @, <<"#", prefix, paths[i].path>>)]]

\* selectSchemaType(content): [type, openApiVersion, content]; kind stands
\* for the $schema / openapi keys of the document
selectSchemaType(kind, content) ==
    CASE kind = "draft-04" ->
             [type |-> "Draft04", openApiVersion |-> 0, content |-> content]
      [] kind = "draft-07" ->
             [type |-> "Draft07", openApiVersion |-> 0, content |-> content]
      [] kind = "openapi-3" ->
             [type |-> "Draft07", openApiVersion |-> 3,
              content |-> IF content.hasPaths
                          THEN [content EXCEPT
                                   !.paths = setSubIds(@, "Draft07", "paths")]
                          ELSE content]
      [] OTHER ->
             [type |-> "Draft04", openApiVersion |-> 0, content |-> content]

\* new SchemaId(inputId, parentIds).getAbsoluteId(): a relative id is
\* resolved against the nearest enclosing id
AbsoluteId(inputId, parentIds) ==
    IF Head(inputId) = "#" /\ parentIds # <<>>
    THEN parentIds[Len(parentIds)] \o Tail(inputId)
    ELSE inputId

\* parseSchema(content, url)
parseSchema(kind, content, url) ==
    LET selected == selectSchemaType(kind, content)
        withId == IF url # NoId
                  THEN setId(selected.type, selected.content, url)
                  ELSE selected.content
    IN  [type |-> selected.type,
         openApiVersion |-> selected.openApiVersion,
         id |-> IF getId(selected.type, withId) # NoId
                THEN AbsoluteId(getId(selected.type, withId), <<>>)
                ELSE NoId,
         content |-> withId]

\* what a search has found so far: the schemas given to onFoundSchema, the
\* ids given to onFoundReference
NothingFound == [schemas |-> <<>>, refs |-> <<>>]

\* a schema given to onFoundSchema; path and method are those of an
\* operation (its namespaces), "" for any other schema
FoundSchema(id, path, method) == [id |-> id, path |-> path, method |-> method]

\* findId: the parentIds it returns
ParentIdsWith(id, parentIds) ==
    IF id # NoId THEN Append(parentIds, AbsoluteId(id, parentIds)) ELSE parentIds

\* findId: the schemas reported after it
FoundWithId(found, id, parentIds, path, method) ==
    IF id # NoId
    THEN [found EXCEPT !.schemas =
             Append(@, FoundSchema(AbsoluteId(id, parentIds), path, method))]
    ELSE found

\* findRef: the references reported after it
FoundWithRef(found, ref, parentIds) ==
    IF ref # NoId
    THEN [found EXCEPT !.refs = Append(@, AbsoluteId(ref, parentIds))]
    ELSE found

\* findRef: refObject.$ref after it
RewrittenRef(ref, parentIds) ==
    IF ref # NoId THEN AbsoluteId(ref, parentIds) ELSE ref

\* walkOpenAPIV3Operation: the operation is reported only through findId,
\* under the id it declares itself; its fields are not searched
walkOpenAPIV3Operation(found, op, method, path, parentIds) ==
    FoundWithId(found, op.dollarId, parentIds, path, method)

Methods == <<"get", "post", "put", "patch", "delete", "head">>

\* the operation of a method in a path item, or none
HasOperation(ops, method) == \E i \in 1..Len(ops) : ops[i].method = method

OperationOf(ops, method) ==
    ops[CHOOSE i \in 1..Len(ops) : ops[i].method = method]

\* the loop over the six methods of one path item, from method k
RECURSIVE WalkMethods(_, _, _, _, _)
WalkMethods(found, pathEntry, k, parentIds, type) ==
    IF k > Len(Methods) THEN found
    ELSE WalkMethods(
             IF HasOperation(pathEntry.ops, Methods[k])
             THEN walkOpenAPIV3Operation(found,
                      OperationOf(pathEntry.ops, Methods[k]),
                      Methods[k], pathEntry.path, parentIds)
             ELSE found,
             pathEntry, k + 1, parentIds, type)

\* walkOpenAPIV3Paths, from path i
RECURSIVE walkOpenAPIV3Paths(_, _, _, _, _)
walkOpenAPIV3Paths(found, paths, i, parentIds, type) ==
    IF i > Len(paths) THEN found
    ELSE walkOpenAPIV3Paths(
             WalkMethods(found, paths[i], 1, parentIds, type),
             paths, i + 1, parentIds, type)

Draft07Keywords == {"propertyNames", "contains", "if", "then", "else"}

\* the keywords walk() descends into at the node s
IsWalked(schema, s, key) ==
    \/ key \notin Draft07Keywords
    \/ schema.type = "Draft07" /\ HasKey(s, "propertyNames")

\* walk(s, paths, parentIds): [found, node], node being s after the walk
RECURSIVE walk(_, _, _, _)
RECURSIVE WalkSubs(_, _, _, _, _)

\* the keyword key of a node after the walk w of its sub-schema
WithSub(acc, key, w) ==
    [found |-> w.found, subs |-> Append(acc.subs, SubOf(key, w.node))]

\* the walk calls on the keywords of s, from the i-th: [found, subs]
WalkSubs(schema, s, i, parentIds, acc) ==
    IF i > Len(s.subs) THEN acc
    ELSE WalkSubs(schema, s, i + 1, parentIds,
             WithSub(acc, s.subs[i].key,
                     IF IsWalked(schema, s, s.subs[i].key)
                     THEN walk(schema, s.subs[i].node, parentIds, acc.found)
                     ELSE [found |-> acc.found, node |-> s.subs[i].node]))

\* the end of walk(): the paths of an OpenAPI v3 document
WalkedNode(schema, s, parentIds, acc) ==
    [found |-> IF schema.openApiVersion = 3 /\ s.hasPaths
               THEN walkOpenAPIV3Paths(acc.found, s.paths, 1, parentIds,
                                       schema.type)
               ELSE acc.found,
     node |-> [s EXCEPT !.ref = RewrittenRef(@, parentIds), !.subs = acc.subs]]

\* walk() after findId returned parentIds
WalkBelow(schema, s, parentIds, found) ==
    WalkedNode(schema, s, parentIds,
        WalkSubs(schema, s, 1, parentIds,
                 [found |-> FoundWithRef(found, s.ref, parentIds),
                  subs |-> <<>>]))

walk(schema, s, parentIds, found) ==
    WalkBelow(schema, s,
              ParentIdsWith(getId(schema.type, s), parentIds),
              FoundWithId(found, getId(schema.type, s), parentIds, "", ""))

\* searchAllSubSchema(schema, onFoundSchema, onFoundReference):
\* [found, node]
searchAllSubSchema(schema) == walk(schema, schema.content, <<>>, NothingFound)

----------------------------------------------------------------------------
(* parseSchema and searchAllSubSchema applied to the documents of a        *)
(* bounded universe                                                        *)

MaxMethods == 2

\* the keywords of the universe, in the order walk() takes them
KeywordOrder == <<"not", "propertyNames", "contains", "if", "then", "else">>

RefLeaf(key) == SearchNode(NoId, NoId, <<"#", "ref", key>>, <<>>)

IdLeaf(key) == SearchNode(NoId, <<"#", "id", key>>, NoId, <<>>)

\* a sub-schema that holds the keyword if without propertyNames
NestedIf == SearchNode(NoId, NoId, NoId, <<SubOf("if", RefLeaf("nested"))>>)

\* what a keyword of a document holds
KindsOf(key) ==
    IF key = "not" THEN {"absent", "plain", "ref", "nested"}
    ELSE IF key \in {"then", "else"} THEN {"absent", "ref"}
    ELSE {"absent", "plain", "ref", "id"}

NodeOfKind(kind, key) ==
    CASE kind = "ref" -> RefLeaf(key)
      [] kind = "id" -> IdLeaf(key)
      [] kind = "nested" -> NestedIf
      [] OTHER -> PlainNode

\* the keywords of a node whose keyword k holds kinds[k]
SubsOf(kinds) ==
    LET present == SelectSeq(KeywordOrder, LAMBDA k : kinds[k] # "absent")
    IN  [i \in 1..Len(present) |->
            SubOf(present[i], NodeOfKind(kinds[present[i]], present[i]))]

KeywordKinds ==
    {kinds \in [Range(KeywordOrder) -> {"absent", "plain", "ref", "id", "nested"}] :
        \A k \in Range(KeywordOrder) : kinds[k] \in KindsOf(k)}

PathNames == <<"/pets", "/pets/{id}">>

\* a path item with operations for the methods ms, those of declared
\* declaring an id of their own
PathEntry(path, ms, declared) ==
    LET present == SelectSeq(Methods, LAMBDA m : m \in ms)
    IN  [path |-> path, item |-> PlainNode,
         ops |-> [i \in 1..Len(present) |->
                     [method |-> present[i],
                      dollarId |-> IF present[i] \in declared
                                   THEN <<"op", path, present[i]>>
                                   ELSE NoId]]]

MethodSets == {ms \in SUBSET Range(Methods) : Cardinality(ms) <= MaxMethods}

PathsNode(paths) == [PlainNode EXCEPT !.hasPaths = TRUE, !.paths = paths]

SearchInit ==
    /\ NoGeneration
    /\ ret = <<>>
    /\ pc = "parse"
    /\ \E url \in {NoId, <<"U">>} :
          \/ \E kind \in {"draft-04", "draft-07", "none"},
                rootId \in {NoId, <<"D">>}, kinds \in KeywordKinds :
                call = [kind |-> kind, url |-> url,
                        content |-> SearchNode(NoId, rootId, NoId, SubsOf(kinds))]
          \/ \E n \in 1..Len(PathNames),
                ms \in [1..Len(PathNames) -> MethodSets] :
                \E declared \in [1..Len(PathNames) -> SUBSET Range(Methods)] :
                   /\ \A i \in 1..Len(PathNames) :
                         /\ declared[i] \subseteq ms[i]
                         /\ i > n => ms[i] = {}
                   /\ call = [kind |-> "openapi-3", url |-> url,
                              content |-> PathsNode(
                                  [i \in 1..n |->
                                      PathEntry(PathNames[i], ms[i], declared[i])])]

\* const schema = parseSchema(content, url)
ParseSchema ==
    /\ pc = "parse"
    /\ ret' = [schema |-> parseSchema(call.kind, call.content, call.url),
               found |-> NothingFound]
    /\ pc' = "search"
    /\ UNCHANGED <<call, genVars>>

\* searchAllSubSchema(schema, onFoundSchema, onFoundReference)
SearchAllSubSchema ==
    /\ pc = "search"
    /\ \E w \in {searchAllSubSchema(ret.schema)} :
          ret' = [schema |-> [ret.schema EXCEPT !.content = w.node],
                  found |-> w.found]
    /\ pc' = "searched"
    /\ UNCHANGED <<call, genVars>>

SearchNext == ParseSchema \/ SearchAllSubSchema

SpecSearch == SearchInit /\ [][SearchNext]_vars

(* Claims about the search (checked under SpecSearch)                      *)

Searched == pc = "searched"

\* the parentIds the walk holds below the root of the document
RootParents == IF ret.schema.id # NoId THEN <<ret.schema.id>> ELSE <<>>

\* the sub-schema before under a keyword was searched: its $ref is
\* rewritten to its absolute id and reported, its own id is reported
SubSchemaSearched(before, after, parentIds) ==
    /\ before.ref # NoId =>
          /\ after.ref = AbsoluteId(before.ref, parentIds)
          /\ AbsoluteId(before.ref, parentIds) \in Range(ret.found.refs)
    /\ before.dollarId # NoId =>
          \E i \in 1..Len(ret.found.schemas) :
              ret.found.schemas[i].id = AbsoluteId(before.dollarId, parentIds)

\* every Draft-07 keyword of the node before was searched
Draft07KeywordsSearched(before, after, parentIds) ==
    \A i \in 1..Len(before.subs) :
        before.subs[i].key \in Draft07Keywords =>
            SubSchemaSearched(before.subs[i].node, after.subs[i].node, parentIds)

\* C12: after the search of a Draft-07 document, the sub-schema under each
\* of propertyNames, contains, if, then and else of every visited node (the
\* root and the node under not) was searched, whichever of the other
\* keywords the node holds.
C12_Draft07KeywordsSearched ==
    (Searched /\ ret.schema.type = "Draft07" /\ ret.schema.openApiVersion = 0) =>
        /\ Draft07KeywordsSearched(call.content, ret.schema.content, RootParents)
        /\ \A i \in 1..Len(call.content.subs) :
              call.content.subs[i].key = "not" =>
                  Draft07KeywordsSearched(call.content.subs[i].node,
                                          ret.schema.content.subs[i].node,
                                          RootParents)

\* the positions at which the operation of method at path was reported
ReportsOf(path, method) ==
    {i \in 1..Len(ret.found.schemas) :
        /\ ret.found.schemas[i].path = path
        /\ ret.found.schemas[i].method = method}

\* C13: after the search of an OpenAPI v3 document, every operation of
\* every path was reported exactly once, and an operation that declares no
\* id was reported under the id derived from its path and method.
C13_EveryOperationReported ==
    (Searched /\ ret.schema.openApiVersion = 3) =>
        \A p \in 1..Len(call.content.paths) :
            \A o \in 1..Len(call.content.paths[p].ops) :
                LET path == call.content.paths[p].path
                    op == call.content.paths[p].ops[o]
                IN  /\ Cardinality(ReportsOf(path, op.method)) = 1
                    /\ op.dollarId = NoId =>
                          \A i \in ReportsOf(path, op.method) :
                              ret.found.schemas[i].id =
                                  AbsoluteId(<<"#", "paths", path, op.method>>,
                                             RootParents)

----------------------------------------------------------------------------
(* generateTypeProperty applied to the enum schemas of a bounded universe  *)

MaxEnum == 3

\* the members: the texts of an integer, a fraction and a word
EnumValues == {"1", "1.5", "a"}

EnumTypes == {"", "integer", "number", "string", "boolean"}

EnumSchemas ==
    { [TypeContent(t) EXCEPT !.hasEnum = TRUE, !.enum = members] :
          t \in EnumTypes, members \in SeqsUpTo(EnumValues, MaxEnum) }

EnumInit ==
    /\ NoGeneration
    /\ \E content \in EnumSchemas, terminate \in BOOLEAN :
          call = [content |-> content, terminate |-> terminate]
    /\ ret = <<>>
    /\ pc = "generateEnum"

GenerateEnum ==
    /\ pc = "generateEnum"
    /\ ret' = generateTypeProperty(NoRegistry, JsonSchema(<<"T">>, call.content),
                                   call.terminate, 1)
    /\ pc' = "generatedEnum"
    /\ UNCHANGED <<call, genVars>>

EnumNext == GenerateEnum

SpecEnum == EnumInit /\ [][EnumNext]_vars

(* Claims about enum emission (checked under SpecEnum)                     *)

\* the literals written, in order
LiteralsWritten(calls) ==
    LET raw == SelectSeq(calls, LAMBDA c : c.op = "outputRawValue")
    IN  [i \in 1..Len(raw) |-> raw[i].arg[1]]

\* C14: the members of an enum are written bare when the type of the
\* schema is integer or number, and as double-quoted string literals for
\* every other type, a missing type included.
C14_NumericEnumBare ==
    pc = "generatedEnum" =>
        /\ ret.err = ""
        /\ LiteralsWritten(ret.calls) =
              [i \in 1..Len(call.content.enum) |->
                  IF call.content.type \in {"integer", "number"}
                  THEN call.content.enum[i]
                  ELSE "\"" \o call.content.enum[i] \o "\""]

----------------------------------------------------------------------------
(* Further claims about operation synthesis (checked under SpecSynth)      *)

\* C15: every schema synthesis returns has the id of the operation followed
\* by one non-empty name, and the ids returned for one operation are
\* pairwise distinct.
C15_NamedDistinctIds ==
    Synthesized =>
        /\ \A i \in 1..Len(ret.results) :
              /\ Len(ret.results[i].id) = Len(OpId) + 1
              /\ SubSeq(ret.results[i].id, 1, Len(OpId)) = OpId
              /\ ret.results[i].id[Len(OpId) + 1] # ""
        /\ DistinctResultIds

\* the returned schemas that are request wrappers referencing the parameter
\* group of location L through their property <L>Param
WrappersOf(L) ==
    {i \in 1..Len(ret.results) :
        /\ (L \o "Param") \in PropNames(ret.results[i].content.props)
        /\ PropSchema(ret.results[i].content.props, L \o "Param")
              = RefContent(GroupId(L))}

\* C17: whenever synthesis returns the parameter group of a location, it
\* also returns a request wrapper whose property for that location
\* references the group.
C17_GroupHasWrapper ==
    Synthesized =>
        \A k \in 1..Len(Locations) :
            ResultsWithId(GroupId(Locations[k])) # {} =>
                WrappersOf(Locations[k]) # {}

(* A further claim about normalizeContent (checked under SpecNorm)         *)

\* C16: normalizeContent returns (or throws a dereference error) for every
\* schema of the registry: its recursion never exhausts the call stack.
C16_NormalizeTerminates == pc = "normalized" => ret.err # "stack"

====
